---- MODULE Spec2Model ----
(***************************************************************************)
(* Model of src/pokeapi.py: the listing fetch, the per-entry loop of       *)
(* scrape_pokemon, parse_pokemon_details and the summary/export of main.   *)
(*                                                                         *)
(* Strings that the program takes apart or builds (names, joined fields,   *)
(* urls) are sequences of one-character strings.  A JSON scalar that may   *)
(* be null is a sequence of length at most one: << >> is null/None and     *)
(* <<v>> is the value v.  A JSON object is a function whose domain is the  *)
(* set of keys that are present.                                           *)
(***************************************************************************)
EXTENDS Integers, Sequences, FiniteSets, TLC

(* ---- bounds ---- *)
CatalogSize == 3
MaxLimit == 3
MaxOffset == 2
MaxNameLen == 2
MaxNames == 2

(* ---- program constants ---- *)
HeadRows == 15
Digits == 2
POKEMON_ENDPOINT == <<"/">>
Separator == <<",", " ">>
None == << >>

Chars == {"a", ",", " "}
BaseExperiences == {10, 20}
FetchCauses == {"ConnectionError", "Timeout", "HTTPError", "JSONDecodeError"}
ScalarKeys == {"id", "name", "height", "weight", "base_experience"}
ListKeys == {"types", "abilities"}

Min(a, b) == IF a < b THEN a ELSE b

(* ---- dict.get(key, default) ---- *)
Get(d, k, default) == IF k \in DOMAIN d THEN d[k] ELSE default

\* variant: joins with "," alone
RECURSIVE Join_comma(_, _)
Join_comma(sep, strs) ==
    IF strs = << >> THEN << >>
    ELSE IF Len(strs) = 1 THEN strs[1]
    ELSE strs[1] \o <<",">> \o Join_comma(sep, Tail(strs))

(* ---- str.join ---- *)
RECURSIVE Join(_, _)
Join(sep, strs) ==
    IF strs = << >> THEN << >>
    ELSE IF Len(strs) = 1 THEN strs[1]
    ELSE strs[1] \o sep \o Join(sep, Tail(strs))

(* ---- the two list comprehensions of parse_pokemon_details ---- *)
HasName(e, outer) == outer \in DOMAIN e /\ "name" \in DOMAIN e[outer]

NestedNames(list, outer) == [i \in 1..Len(list) |-> list[i][outer]["name"]]

\* variant: details["types"] and details["abilities"] instead of .get(key, [])
ParseRaises_subscript(details) ==
    \/ "types" \notin DOMAIN details
    \/ "abilities" \notin DOMAIN details
    \/ \E i \in 1..Len(Get(details, "types", << >>)) :
          ~HasName(Get(details, "types", << >>)[i], "type")
    \/ \E i \in 1..Len(Get(details, "abilities", << >>)) :
          ~HasName(Get(details, "abilities", << >>)[i], "ability")

ParseRaises(details) ==
    \/ \E i \in 1..Len(Get(details, "types", << >>)) :
          ~HasName(Get(details, "types", << >>)[i], "type")
    \/ \E i \in 1..Len(Get(details, "abilities", << >>)) :
          ~HasName(Get(details, "abilities", << >>)[i], "ability")

parse_pokemon_details(details) ==
    [id              |-> Get(details, "id", None),
     name            |-> Get(details, "name", None),
     height_dm       |-> Get(details, "height", None),
     weight_hg       |-> Get(details, "weight", None),
     base_experience |-> Get(details, "base_experience", None),
     types           |-> Join(Separator, NestedNames(Get(details, "types", << >>), "type")),
     abilities       |-> Join(Separator, NestedNames(Get(details, "abilities", << >>), "ability"))]

(* ---- the remote catalogue behind the two endpoints ---- *)
NameOf(i) == [k \in 1..i |-> "a"]
UrlOf(i) == POKEMON_ENDPOINT \o NameOf(i)
Catalog == [i \in 1..CatalogSize |-> [name |-> NameOf(i), url |-> UrlOf(i)]]

Page(lim, off) ==
    IF off >= CatalogSize THEN << >>
    ELSE SubSeq(Catalog, off + 1, Min(off + lim, CatalogSize))

ListingBodies(lim, off) ==
    {[results |-> Page(lim, off)], [count |-> CatalogSize]}

TypeEntry(n) == [type |-> [name |-> n]]
AbilityEntry(n) == [ability |-> [name |-> n]]
BadEntry == [slot |-> 1]

DetailOf(e, be) ==
    [id |-> <<Len(e.name)>>, name |-> <<e.name>>, height |-> <<7>>, weight |-> <<69>>,
     base_experience |-> be,
     types |-> <<TypeEntry(<<"a">>), TypeEntry(<<"a", "a">>)>>,
     abilities |-> <<AbilityEntry(<<"a">>)>>]

SparseDetailOf(e) == [id |-> <<Len(e.name)>>, name |-> <<e.name>>]

BadDetailOf(e) ==
    [id |-> <<Len(e.name)>>, name |-> <<e.name>>, types |-> <<TypeEntry(<<"a">>), BadEntry>>]

GoodDetails(e) ==
    {DetailOf(e, <<b>>) : b \in BaseExperiences} \cup {DetailOf(e, None), SparseDetailOf(e)}

Response(exc, body) == [exc |-> exc, body |-> body]
Request(url, params) == [url |-> url, params |-> params]

(* ---- pandas: DataFrame(rows), df[col].dropna().mean(), round, to_csv ---- *)
RowColumns == <<"id", "name", "height_dm", "weight_hg", "base_experience", "types", "abilities">>

DataFrame(rs) == [columns |-> IF rs = << >> THEN << >> ELSE RowColumns, data |-> rs]

HasColumn(frame, c) == \E i \in 1..Len(frame.columns) : frame.columns[i] = c

Column(frame, c) == [i \in 1..Len(frame.data) |-> frame.data[i][c]]

DropNa(col) == SelectSeq(col, LAMBDA v : v # None)

RECURSIVE SumValues(_)
SumValues(col) == IF col = << >> THEN 0 ELSE col[1][1] + SumValues(Tail(col))

RECURSIVE Pow10(_)
Pow10(n) == IF n = 0 THEN 1 ELSE 10 * Pow10(n - 1)

\* round(total / count, Digits), in units of 10^-Digits, ties to even
RoundedMean(total, count) ==
    LET scaled == total * Pow10(Digits)
        q == scaled \div count
        r == scaled % count
    IN  IF 2 * r < count THEN q
        ELSE IF 2 * r > count THEN q + 1
        ELSE IF q % 2 = 0 THEN q ELSE q + 1

\* round(Series.mean(), Digits): nan for an empty series
Average(col) ==
    IF col = << >> THEN [nan |-> TRUE, num |-> 0]
    ELSE [nan |-> FALSE, num |-> RoundedMean(SumValues(col), Len(col))]

to_csv(frame) == [header |-> frame.columns, lines |-> frame.data]

Line(kind, name, cause, num, nan) ==
    [kind |-> kind, name |-> name, cause |-> cause, num |-> num, nan |-> nan]

ErrorLine(name, cause) == Line("error", name, cause, 0, FALSE)
PreviewLine(frame) == Line("preview", << >>, "", Min(HeadRows, Len(frame.data)), FALSE)
TotalLine(frame) == Line("total", << >>, "", Len(frame.data), FALSE)
AverageLine(avg) == Line("average", << >>, "", avg.num, avg.nan)
SavedLine(frame) == Line("saved", << >>, "", Len(frame.data), FALSE)

NoBody == [k \in {} |-> None]
NoFrame == [columns |-> << >>, data |-> << >>]

DetailResponses(e) ==
    {Response("", d) : d \in GoodDetails(e) \cup {BadDetailOf(e)}}
        \cup {Response(c, NoBody) : c \in FetchCauses}

VARIABLES pc, limit, offset, listing, results, index, rows, df, requests,
          responses, sleeps, stdout, file, exc, details, flat, fpc

vars == <<pc, limit, offset, listing, results, index, rows, df, requests,
          responses, sleeps, stdout, file, exc, details, flat, fpc>>

flattenVars == <<details, flat, fpc>>
runVars == <<pc, limit, offset, listing, results, index, rows, df, requests,
             responses, sleeps, stdout, file, exc>>

RunIdle ==
    /\ listing = << >> /\ results = << >> /\ index = 0 /\ rows = << >>
    /\ df = NoFrame /\ requests = << >> /\ responses = << >> /\ sleeps = 0
    /\ stdout = << >> /\ file = << >> /\ exc = ""

Init ==
    /\ pc = "start"
    /\ limit \in 1..MaxLimit
    /\ offset \in 0..MaxOffset
    /\ RunIdle
    /\ details = NoBody /\ flat = << >> /\ fpc = "idle"

(* ---- scrape_pokemon: the listing fetch ---- *)
ListingRequest == Request(POKEMON_ENDPOINT, <<limit, offset>>)

\* variant: the listing fetch guarded like a detail fetch, the run going on
\* with no entries
FetchListingError_swallowed(cause) ==
    /\ pc = "start"
    /\ requests' = Append(requests, ListingRequest)
    /\ stdout' = Append(stdout, ErrorLine(<< >>, cause))
    /\ pc' = "loop"
    /\ UNCHANGED <<limit, offset, listing, results, index, rows, df, responses,
                   sleeps, file, exc>>
    /\ UNCHANGED flattenVars

FetchListingError(cause) ==
    /\ pc = "start"
    /\ requests' = Append(requests, ListingRequest)
    /\ exc' = cause
    /\ pc' = "raised"
    /\ UNCHANGED <<limit, offset, listing, results, index, rows, df, responses,
                   sleeps, stdout, file>>
    /\ UNCHANGED flattenVars

FetchListingOk(body) ==
    /\ pc = "start"
    /\ requests' = Append(requests, ListingRequest)
    /\ listing' = <<body>>
    /\ results' = Get(body, "results", << >>)
    /\ pc' = "loop"
    /\ UNCHANGED <<limit, offset, index, rows, df, responses, sleeps, stdout, file, exc>>
    /\ UNCHANGED flattenVars

(* ---- scrape_pokemon: one pass of the loop body, up to the sleep ---- *)
Entry == results[index + 1]

\* variant: a failed detail request is sent a second time
BeginEntry_retry(resp) ==
    /\ pc = "loop"
    /\ index < Len(results)
    /\ resp \in DetailResponses(Entry)
    /\ index' = index + 1
    /\ requests' = IF resp.exc # ""
                   THEN requests \o <<Request(Entry.url, << >>), Request(Entry.url, << >>)>>
                   ELSE Append(requests, Request(Entry.url, << >>))
    /\ responses' = Append(responses, resp)
    /\ pc' = "sleep"
    /\ UNCHANGED <<limit, offset, listing, results, df, sleeps, file, exc>>
    /\ UNCHANGED flattenVars

BeginEntry(resp) ==
    /\ pc = "loop"
    /\ index < Len(results)
    /\ resp \in DetailResponses(Entry)
    /\ index' = index + 1
    /\ requests' = Append(requests, Request(Entry.url, << >>))
    /\ responses' = Append(responses, resp)
    /\ pc' = "sleep"
    /\ UNCHANGED <<limit, offset, listing, results, df, sleeps, file, exc>>
    /\ UNCHANGED flattenVars

\* variant: rows.insert(0, ...) instead of rows.append(...)
DetailOk_prepend(resp) ==
    /\ BeginEntry(resp)
    /\ resp.exc = ""
    /\ ~ParseRaises(resp.body)
    /\ rows' = <<parse_pokemon_details(resp.body)>> \o rows
    /\ UNCHANGED stdout

DetailOk(resp) ==
    /\ BeginEntry(resp)
    /\ resp.exc = ""
    /\ ~ParseRaises(resp.body)
    /\ rows' = Append(rows, parse_pokemon_details(resp.body))
    /\ UNCHANGED stdout

\* variant: fetch_json(url) outside the try block
DetailFetchError_unguarded(resp) ==
    /\ pc = "loop"
    /\ index < Len(results)
    /\ resp \in DetailResponses(Entry)
    /\ resp.exc # ""
    /\ index' = index + 1
    /\ requests' = Append(requests, Request(Entry.url, << >>))
    /\ responses' = Append(responses, resp)
    /\ exc' = resp.exc
    /\ pc' = "raised"
    /\ UNCHANGED <<limit, offset, listing, results, rows, df, sleeps, stdout, file>>
    /\ UNCHANGED flattenVars

DetailFetchError(resp) ==
    /\ BeginEntry(resp)
    /\ resp.exc # ""
    /\ stdout' = Append(stdout, ErrorLine(Entry.name, resp.exc))
    /\ UNCHANGED rows

\* variant: a row of None fields is kept for an entry that cannot be flattened
DetailFlattenError_placeholder(resp) ==
    /\ BeginEntry(resp)
    /\ resp.exc = ""
    /\ ParseRaises(resp.body)
    /\ stdout' = Append(stdout, ErrorLine(Entry.name, "KeyError"))
    /\ rows' = Append(rows, parse_pokemon_details(NoBody))

DetailFlattenError(resp) ==
    /\ BeginEntry(resp)
    /\ resp.exc = ""
    /\ ParseRaises(resp.body)
    /\ stdout' = Append(stdout, ErrorLine(Entry.name, "KeyError"))
    /\ UNCHANGED rows

\* variant: time.sleep inside the try block, after rows.append
Sleep_inTry ==
    /\ pc = "sleep"
    /\ sleeps' = IF responses[Len(responses)].exc = "" /\ ~ParseRaises(responses[Len(responses)].body)
                 THEN sleeps + 1 ELSE sleeps
    /\ pc' = "loop"
    /\ UNCHANGED <<limit, offset, listing, results, index, rows, df, requests,
                   responses, stdout, file, exc>>
    /\ UNCHANGED flattenVars

Sleep ==
    /\ pc = "sleep"
    /\ sleeps' = sleeps + 1
    /\ pc' = "loop"
    /\ UNCHANGED <<limit, offset, listing, results, index, rows, df, requests,
                   responses, stdout, file, exc>>
    /\ UNCHANGED flattenVars

ReturnFrame ==
    /\ pc = "loop"
    /\ index = Len(results)
    /\ df' = DataFrame(rows)
    /\ pc' = "summary"
    /\ UNCHANGED <<limit, offset, listing, results, index, rows, requests,
                   responses, sleeps, stdout, file, exc>>
    /\ UNCHANGED flattenVars

(* ---- main: preview, summary, export ---- *)
Summarize ==
    /\ pc = "summary"
    /\ HasColumn(df, "base_experience")
    /\ stdout' = stdout \o <<PreviewLine(df), TotalLine(df),
                             AverageLine(Average(DropNa(Column(df, "base_experience"))))>>
    /\ pc' = "export"
    /\ UNCHANGED <<limit, offset, listing, results, index, rows, df, requests,
                   responses, sleeps, file, exc>>
    /\ UNCHANGED flattenVars

SummarizeKeyError ==
    /\ pc = "summary"
    /\ ~HasColumn(df, "base_experience")
    /\ stdout' = stdout \o <<PreviewLine(df), TotalLine(df)>>
    /\ exc' = "KeyError"
    /\ pc' = "raised"
    /\ UNCHANGED <<limit, offset, listing, results, index, rows, df, requests,
                   responses, sleeps, file>>
    /\ UNCHANGED flattenVars

Export ==
    /\ pc = "export"
    /\ file' = <<to_csv(df)>>
    /\ stdout' = Append(stdout, SavedLine(df))
    /\ pc' = "done"
    /\ UNCHANGED <<limit, offset, listing, results, index, rows, df, requests,
                   responses, sleeps, exc>>
    /\ UNCHANGED flattenVars

Next ==
    \/ \E cause \in FetchCauses : FetchListingError(cause)
    \/ \E body \in ListingBodies(limit, offset) : FetchListingOk(body)
    \/ \E resp \in UNION {DetailResponses(Catalog[i]) : i \in 1..CatalogSize} : DetailOk(resp)
    \/ \E resp \in UNION {DetailResponses(Catalog[i]) : i \in 1..CatalogSize} : DetailFetchError(resp)
    \/ \E resp \in UNION {DetailResponses(Catalog[i]) : i \in 1..CatalogSize} : DetailFlattenError(resp)
    \/ Sleep
    \/ ReturnFrame
    \/ Summarize
    \/ SummarizeKeyError
    \/ Export

Spec == Init /\ [][Next]_vars

(* ---- parse_pokemon_details on its own: the documents it is applied to ---- *)
Strings == UNION {[1..k -> Chars] : k \in 0..MaxNameLen}

NameLists == UNION {[1..k -> Strings] : k \in 0..MaxNames}

TypesOf(ns) == [i \in 1..Len(ns) |-> TypeEntry(ns[i])]
AbilitiesOf(ns) == [i \in 1..Len(ns) |-> AbilityEntry(ns[i])]

FewTypeLists ==
    {<< >>, TypesOf(<< <<"a">>, <<"a", "a">> >>), <<BadEntry>>,
     <<TypeEntry(<<"a">>), [type |-> [url |-> <<"/">>]]>>}

FewAbilityLists ==
    {<< >>, AbilitiesOf(<< <<"a">> >>), <<[ability |-> [url |-> <<"/">>]]>>}

Document(present, tl, al) ==
    [k \in present |->
        CASE k = "id" -> <<1>>
          [] k = "name" -> << <<"a">> >>
          [] k = "height" -> <<7>>
          [] k = "weight" -> <<69>>
          [] k = "base_experience" -> <<10>>
          [] k = "types" -> tl
          [] k = "abilities" -> al]

\* every set of keys present, with a few lists
KeyVariant(d) ==
    \E present \in SUBSET (ScalarKeys \cup ListKeys), tl \in FewTypeLists, al \in FewAbilityLists :
        d = Document(present, tl, al)

\* every key present, one of the two lists ranging over all lists of names
ListVariant(d) ==
    \/ \E ns \in NameLists, al \in FewAbilityLists :
          d = Document(ScalarKeys \cup ListKeys, TypesOf(ns), al)
    \/ \E ns \in NameLists, tl \in FewTypeLists :
          d = Document(ScalarKeys \cup ListKeys, tl, AbilitiesOf(ns))

InitFlatten ==
    /\ pc = "idle" /\ limit = 1 /\ offset = 0
    /\ RunIdle
    /\ KeyVariant(details) \/ ListVariant(details)
    /\ flat = << >>
    /\ fpc = "call"

ParseReturn ==
    /\ fpc = "call"
    /\ ~ParseRaises(details)
    /\ flat' = <<parse_pokemon_details(details)>>
    /\ fpc' = "returned"
    /\ UNCHANGED details
    /\ UNCHANGED runVars

ParseRaise ==
    /\ fpc = "call"
    /\ ParseRaises(details)
    /\ fpc' = "raised"
    /\ UNCHANGED <<details, flat>>
    /\ UNCHANGED runVars

NextFlatten == ParseReturn \/ ParseRaise

SpecFlatten == InitFlatten /\ [][NextFlatten]_vars

(* ---- str.split(sep), the inverse the joined fields are read back with ---- *)
StartsWith(s, sep) == Len(s) >= Len(sep) /\ SubSeq(s, 1, Len(sep)) = sep

RECURSIVE SplitFrom(_, _, _)
SplitFrom(piece, rest, sep) ==
    IF rest = << >> THEN <<piece>>
    ELSE IF StartsWith(rest, sep)
         THEN <<piece>> \o SplitFrom(<< >>, SubSeq(rest, Len(sep) + 1, Len(rest)), sep)
         ELSE SplitFrom(Append(piece, Head(rest)), Tail(rest), sep)

Split(s, sep) == SplitFrom(<< >>, s, sep)

Contains(s, sep) == \E i \in 1..Len(s) : StartsWith(SubSeq(s, i, Len(s)), sep)

(* ======================= properties ======================= *)
Succeeded(resp) == resp.exc = "" /\ ~ParseRaises(resp.body)

FailedCount == Cardinality({i \in 1..Len(responses) : ~Succeeded(responses[i])})

RECURSIVE ExpectedRows(_)
ExpectedRows(resps) ==
    IF resps = << >> THEN << >>
    ELSE IF Succeeded(resps[1])
         THEN <<parse_pokemon_details(resps[1].body)>> \o ExpectedRows(Tail(resps))
         ELSE ExpectedRows(Tail(resps))

\* names of the listing entries 1..n whose response succeeded, in listing order
RECURSIVE SucceededNames(_)
SucceededNames(n) ==
    IF n = 0 THEN << >>
    ELSE IF Succeeded(responses[n])
         THEN Append(SucceededNames(n - 1), <<results[n].name>>)
         ELSE SucceededNames(n - 1)

\* the error lines the failed entries 1..n call for, in listing order
RECURSIVE ExpectedErrors(_)
ExpectedErrors(n) ==
    IF n = 0 THEN << >>
    ELSE IF Succeeded(responses[n]) THEN ExpectedErrors(n - 1)
    ELSE Append(ExpectedErrors(n - 1),
                ErrorLine(results[n].name,
                          IF responses[n].exc # "" THEN responses[n].exc ELSE "KeyError"))

ErrorLines == SelectSeq(stdout, LAMBDA l : l.kind = "error")
AverageLines == SelectSeq(stdout, LAMBDA l : l.kind = "average")

ListingFetched == listing # << >>
LoopLeft == pc \in {"summary", "export", "done"} \/ (pc = "raised" /\ ListingFetched)
Returned == pc \in {"export", "done"} \/ (pc = "raised" /\ ListingFetched)

\* C1: the rows collected (and the frame returned) are exactly the flattened
\* rows of the entries whose fetch and flatten succeeded, in listing order:
\* a failed entry adds no row and no entry adds more than one row.
C1_RowsAreSucceededEntries ==
    /\ Len(responses) <= Len(results)
    /\ rows = ExpectedRows(responses)
    /\ [i \in 1..Len(rows) |-> rows[i].name] = SucceededNames(Len(responses))
    /\ LoopLeft => Len(responses) = Len(results) /\ df.data = rows

C1_Witness ==
    /\ pc = "done" /\ Len(results) = 3
    /\ Succeeded(responses[1]) /\ ~Succeeded(responses[2]) /\ Succeeded(responses[3])
    /\ Len(file[1].lines) = 2

\* C2 as stated: scrape_pokemon(limit=N) returns at most N rows, and exactly
\* N minus the number of failed entries.
C2_RowCountFromLimit ==
    LoopLeft => Len(df.data) <= limit /\ Len(df.data) = limit - FailedCount

\* C2 amended: the number of rows returned is the number of entries in the
\* listing minus the number of failed entries, which is at most N because the
\* listing page holds at most N entries.
C2_RowCountFromListing ==
    LoopLeft => /\ Len(df.data) = Len(results) - FailedCount
                /\ Len(df.data) <= limit

C2_Witness ==
    /\ LoopLeft /\ Len(results) = 2 /\ limit = 3
    /\ FailedCount = 1 /\ Len(df.data) = 1

\* C3: when the listing fetch fails the error leaves scrape_pokemon and main
\* at once: the listing request is the only request, there is no detail
\* response, no pacing delay, nothing printed and no output file.
C3_ListingFailureIsFatal ==
    (~ListingFetched /\ pc # "start") =>
        /\ pc = "raised" /\ exc \in FetchCauses
        /\ requests = <<ListingRequest>>
        /\ responses = << >> /\ index = 0 /\ rows = << >>
        /\ sleeps = 0 /\ stdout = << >> /\ file = << >>

C3_Witness == pc = "raised" /\ ~ListingFetched /\ exc = "Timeout" /\ Len(requests) = 1

\* C4: a failed entry is logged exactly once with its name and cause, leaves
\* the rows collected so far unchanged and does not end the loop: every entry
\* of the listing is processed before the loop is left.
C4_LoggedOnce ==
    /\ ErrorLines = ExpectedErrors(Len(responses))
    /\ LoopLeft => Len(responses) = Len(results)

C4_FailureStep ==
    (Len(responses') = Len(responses) + 1 /\ ~Succeeded(responses'[Len(responses')]))
        => rows' = rows /\ pc' = "sleep" /\ exc' = exc

C4_FailureIsolation == [](C4_LoggedOnce) /\ [][C4_FailureStep]_vars

C4_Witness ==
    /\ pc = "done" /\ Len(results) = 3
    /\ responses[1].exc = "Timeout"
    /\ Succeeded(responses[2])
    /\ responses[3].exc = "" /\ ParseRaises(responses[3].body)
    /\ Len(ErrorLines) = 2 /\ Len(rows) = 1

\* C5: once the listing fetch has succeeded the run never ends abnormally,
\* whatever number of entries failed, and a finished run has printed the
\* summary and written the output file.
C5_NormalExit ==
    ListingFetched =>
        /\ pc # "raised"
        /\ pc = "done" => file # << >> /\ Len(AverageLines) = 1

\* C6: the reported average is the mean of base_experience over the rows where
\* it is not null (to the two printed decimals), and is reported as undefined,
\* not as a failure, when no row has a value.
C6_AverageReported ==
    Returned =>
        LET col == DropNa([i \in 1..Len(rows) |-> rows[i].base_experience])
        IN  /\ Len(AverageLines) = 1
            /\ col = << >> => AverageLines[1].nan
            /\ col # << >> =>
                 LET d == AverageLines[1].num * Len(col) - Pow10(Digits) * SumValues(col)
                 IN  /\ ~AverageLines[1].nan
                     /\ 2 * d <= Len(col) /\ -2 * d <= Len(col)

\* C9: one pacing delay follows every processed entry, failed or not: no
\* detail fetch starts before the delay of the previous one, and the loop is
\* left with as many delays as the listing has entries.
C9_OneDelayPerEntry ==
    /\ pc = "sleep" => sleeps = Len(responses) - 1
    /\ pc # "sleep" => sleeps = Len(responses)
    /\ LoopLeft => sleeps = Len(results)

C9_Witness ==
    /\ pc = "done" /\ sleeps = 3
    /\ \E i \in 1..3 : ~Succeeded(responses[i])
    /\ \E i \in 1..3 : Succeeded(responses[i])

\* C10: the listing endpoint is requested once and each entry's url once, in
\* listing order, failed or not: 1 + (entries) requests in all.
C10_NoRetries ==
    /\ pc # "start" /\ ListingFetched =>
          requests = <<ListingRequest>>
                       \o [i \in 1..Len(responses) |-> Request(results[i].url, << >>)]
    /\ LoopLeft => Len(requests) = 1 + Len(results)

C10_Witness ==
    /\ pc = "done" /\ Len(requests) = 4
    /\ \E i \in 1..3 : responses[i].exc # ""

(* ---- parse_pokemon_details ---- *)
ShapedList(list, outer) ==
    \A i \in 1..Len(list) : outer \in DOMAIN list[i] /\ "name" \in DOMAIN (list[i][outer])

ShapedDetail(d) ==
    /\ "types" \in DOMAIN d => ShapedList(d["types"], "type")
    /\ "abilities" \in DOMAIN d => ShapedList(d["abilities"], "ability")

RowKey(k) ==
    CASE k = "height" -> "height_dm"
      [] k = "weight" -> "weight_hg"
      [] OTHER -> k

\* C7: on a document whose lists are well shaped, whatever keys are missing,
\* parse_pokemon_details returns: a missing types or abilities key gives the
\* empty string, a missing scalar key gives None, and the document is left as
\* it was.
C7_Defaults ==
    (fpc # "call" /\ ShapedDetail(details)) =>
        /\ fpc = "returned"
        /\ \A k \in ScalarKeys : flat[1][RowKey(k)] = (IF k \in DOMAIN details THEN details[k] ELSE None)
        /\ \A k \in ListKeys : k \notin DOMAIN details => flat[1][k] = << >>

C7_MissingKeysNeverFail == [](C7_Defaults) /\ [][details' = details]_vars

C7_Witness ==
    /\ fpc = "returned"
    /\ DOMAIN details = {"abilities"}
    /\ Len(details["abilities"]) = 1
    /\ flat[1].types = << >> /\ flat[1].id = None /\ flat[1].abilities # << >>

TypeNames(d) == NestedNames(Get(d, "types", << >>), "type")
AbilityNames(d) == NestedNames(Get(d, "abilities", << >>), "ability")

SeparatorFree(names) == \A i \in 1..Len(names) : ~Contains(names[i], Separator)

ValidDetail(d) ==
    /\ ShapedDetail(d)
    /\ SeparatorFree(TypeNames(d)) /\ SeparatorFree(AbilityNames(d))

\* C8 as stated: for every valid document, splitting the joined types and
\* abilities on ", " gives back the sequences of names, the empty one included.
C8_RoundTrip ==
    (fpc = "returned" /\ ValidDetail(details)) =>
        /\ Split(flat[1].types, Separator) = TypeNames(details)
        /\ Split(flat[1].abilities, Separator) = AbilityNames(details)

RoundTrips(joined, names) ==
    /\ names # << >> => Split(joined, Separator) = names
    /\ names = << >> => joined = << >> /\ Split(joined, Separator) = << << >> >>

\* C8 amended: for every valid document, splitting the joined types and
\* abilities on ", " gives back every sequence of names that is not empty;
\* the empty sequence is joined to the empty string, which splits into one
\* empty name.
C8_RoundTripNonEmpty ==
    (fpc = "returned" /\ ValidDetail(details)) =>
        /\ RoundTrips(flat[1].types, TypeNames(details))
        /\ RoundTrips(flat[1].abilities, AbilityNames(details))

C8_Witness ==
    /\ fpc = "returned" /\ ValidDetail(details)
    /\ Len(TypeNames(details)) = 2
    /\ TypeNames(details)[1] = <<"a", ",">> /\ TypeNames(details)[2] = <<" ", "a">>
    /\ AbilityNames(details) = << >>

====
